---- MODULE Spec2Model ----
(***************************************************************************)
(* The indexing pipeline of semantix: the repos table with its status      *)
(* column used as a job queue (domains/repos, db/queries/repos.sql), the   *)
(* worker pool that claims pending repositories and runs                   *)
(* Orchestrator.IndexRepo on them (domains/indexing), and the re-index     *)
(* request of the HTTP API (repos.TriggerReindex).                         *)
(*                                                                         *)
(* Every call that takes the worker context (pgx queries, go-git clone,    *)
(* OpenAI and Milvus requests) is one atomic step that may fail; it fails  *)
(* for certain once that context is cancelled.  Steps that touch only the  *)
(* local checkout (GetMetadata, ListFiles, GetFileInfo, ReadFile) may fail *)
(* but do not look at the context.                                         *)
(*                                                                         *)
(* Specifications, all over the same variables:                            *)
(*   Spec      the worker pool, the API and shutdown/restart;              *)
(*   FairSpec  Spec with weak fairness on the worker goroutines;           *)
(*   PollSpec  one worker that is never stopped, with weak fairness;       *)
(*   RunSpec   successive IndexRepo runs of one repository over changing   *)
(*             trees, and the API's Delete handler;                        *)
(*   DbSpec    the retrying executor of libs/db (Query, Query1, Tx, Tx1).  *)
(*   CacheSpec the embedding_cache table and its two statements;           *)
(*   EmbSpec   one call of openai.GenerateBatchEmbeddings;                 *)
(*   WalkSpec  gitrepo.ListFiles on a directory with unreadable entries.   *)
(***************************************************************************)
EXTENDS Integers, Sequences, FiniteSets, TLC

NumRepos == 2      \* rows the repos table can hold
NumWorkers == 2    \* config.Indexing.MaxConcurrentJobs()
NumPaths == 2      \* indexable paths of a checkout

Repos == 1..NumRepos
Workers == 1..NumWorkers
Paths == 1..NumPaths

StatusPending == "pending"
StatusCloning == "cloning"
StatusIndexing == "indexing"
StatusCompleted == "completed"
StatusFailed == "failed"

\* Status.IsActive
IsActive(s) == s = StatusCloning \/ s = StatusIndexing

\* The error column: NULL (read back as "") or the prefix SetError was given.
NoError == ""
ErrClone == "clone failed: "
ErrMetadata == "metadata extraction failed: "
ErrListing == "file listing failed: "

\* What IndexRepo returns: nil, ctx.Err() as it is, or an error wrapped by fmt.Errorf.
NoReturn == "none"
RetNil == "nil"
RetCtxErr == "context canceled"
RetWrapped == "wrapped error"

VARIABLES
  repos,      \* repos table: id -> row (exists = FALSE: no such row)
  files,      \* files table: repo id -> path -> [shasum, chunk_count], shasum 0: no row
  vectors,    \* Milvus collection: repo id -> path -> number of entries of that file id
  cloned,     \* repo id -> TRUE when the clone directory GetRepoPath(id) holds a repository
  checkout,   \* repo id -> path -> digest of the file in the clone directory, 0: absent
  wpc,        \* worker -> where its goroutine stands
  job,        \* worker -> id of the repository ClaimPending returned to it, 0: none
  idx,        \* worker -> position of the file loop in the walk list
  existing,   \* worker -> existingFileMap: path -> shasum of the record read at the start
  ret,        \* worker -> what IndexRepo returned to processJob, NoReturn: not returned
  cancelled,  \* the workers' context is cancelled
  wg,         \* Worker.wg counter
  stopPc,     \* Worker.stop: "running", "waiting" (in wg.Wait), "stopped"
  api,        \* the HTTP handler running TriggerReindex: [pc, repo, err]
  runs,       \* RunSpec: number of runs started
  sameTree,   \* RunSpec: the run follows a Completed run and its checkout is the same tree
  calls,      \* RunSpec: calls of openai.GenerateBatchEmbeddings made by the run
  class,      \* RunSpec: path -> branch of the incremental check the run took for it
  embedded,   \* RunSpec: the contents whose chunks the embedding service has embedded
  dpc,        \* DbSpec: where the call of db.Query/Query1/Tx/Tx1 stands
  dkind,      \* DbSpec: the function called
  dattempt,   \* DbSpec: the loop variable attempt
  dcalls,     \* DbSpec: number of calls of the unit of work fn
  dlast,      \* DbSpec: the error of the attempt made last ("nil": none)
  dfnres,     \* DbSpec: the value fn returned last
  dret,       \* DbSpec: what the call returned: [err, result]
  dvisible,   \* DbSpec: the attempts whose writes are committed
  dcancel,    \* DbSpec: the caller's context is cancelled
  cache,      \* CacheSpec: embedding_cache table: content_hash -> row
  clast,      \* CacheSpec: the statement run last, with its arguments and its result
  texts,      \* EmbSpec: the argument texts of GenerateBatchEmbeddings
  apiKey,     \* EmbSpec: config.Openai.ApiKey() is not empty
  epc,        \* EmbSpec: where the call of GenerateBatchEmbeddings stands
  ei,         \* EmbSpec: the loop variable i
  allEmbeddings, \* EmbSpec: the local allEmbeddings
  sent,       \* EmbSpec: the Input of the request sent last to the embedding service
  eresp,      \* EmbSpec: what the service answered last
  eret,       \* EmbSpec: what the call returned: [err, embeddings]
  entries,    \* WalkSpec: the entries of the clone directory, in filepath.Walk order
  wfiles,     \* WalkSpec: the files gitrepo.ListFiles returned
  wres        \* WalkSpec: the error gitrepo.ListFiles returned ("none": not called yet)

vars == <<repos, files, vectors, cloned, checkout, wpc, job, idx, existing, ret,
          cancelled, wg, stopPc, api, runs, sameTree, calls, class, embedded,
          dpc, dkind, dattempt, dcalls, dlast, dfnres, dret, dvisible, dcancel,
          cache, clast, texts, apiKey, epc, ei, allEmbeddings, sent, eresp, eret,
          entries, wfiles, wres>>

workerVars == <<wpc, job, idx, existing, ret>>
storeVars == <<files, vectors, cloned, checkout>>
stopVars == <<cancelled, wg, stopPc>>
runVars == <<runs, sameTree, calls, class, embedded>>
dbVars == <<dpc, dkind, dattempt, dcalls, dlast, dfnres, dret, dvisible, dcancel>>
cacheVars == <<cache, clast>>
embVars == <<texts, apiKey, epc, ei, allEmbeddings, sent, eresp, eret>>
walkVars == <<entries, wfiles, wres>>
libVars == <<cacheVars, embVars, walkVars>>
auxVars == <<runVars, dbVars, libVars>>
pipelineVars == <<repos, files, vectors, cloned, checkout, wpc, job, idx, existing, ret,
                  cancelled, wg, stopPc, api>>

NoRow == [exists |-> FALSE, status |-> StatusPending, error |-> NoError, commit |-> 0, created |-> 0]
NoFile == [shasum |-> 0, chunk_count |-> 0]

\* No run of RunSpec has started.
RunIdle ==
  /\ runs = 0
  /\ sameTree = FALSE
  /\ calls = 0
  /\ class = [p \in Paths |-> "none"]
  /\ embedded = {}

\* No call of DbSpec is under way.
DbIdle ==
  /\ dpc = "idle"
  /\ dkind = "Query"
  /\ dattempt = 0
  /\ dcalls = 0
  /\ dlast = "nil"
  /\ dfnres = 0
  /\ dret = [err |-> "nil", result |-> 0]
  /\ dvisible = {}
  /\ dcancel = FALSE

NumHashes == 2     \* chunk contents (content_hash values)
NumModels == 2     \* embedding models
NumVecs == 2       \* embedding vectors
MaxUses == 3       \* cap of embedding_cache.use_count

Hashes == 1..NumHashes
Models == 1..NumModels
Vecs == 1..NumVecs

\* A row of embedding_cache that is not there.
NoEntry == [present |-> FALSE, embedding |-> 0, model |-> 0, use_count |-> 0]
NoStatement == [op |-> "none", content_hash |-> 0, model |-> 0, embedding |-> 0,
                hit |-> FALSE, out |-> 0]

\* The embedding cache is empty and no statement has run.
CacheIdle ==
  /\ cache = [d \in Hashes |-> NoEntry]
  /\ clast = NoStatement

\* No call of GenerateBatchEmbeddings is under way.
EmbIdle ==
  /\ texts = <<>>
  /\ apiKey = TRUE
  /\ epc = "idle"
  /\ ei = 0
  /\ allEmbeddings = <<>>
  /\ sent = <<>>
  /\ eresp = "none"
  /\ eret = [err |-> "nil", embeddings |-> <<>>]

\* gitrepo.ListFiles has not been called on a directory of WalkSpec.
WalkIdle ==
  /\ entries = <<>>
  /\ wfiles = <<>>
  /\ wres = "none"

LibIdle == CacheIdle /\ EmbIdle /\ WalkIdle

\* No repository, no checkout, the workers polling.
PipelineIdle ==
  /\ repos = [r \in Repos |-> NoRow]
  /\ files = [r \in Repos |-> [p \in Paths |-> NoFile]]
  /\ vectors = [r \in Repos |-> [p \in Paths |-> 0]]
  /\ cloned = [r \in Repos |-> FALSE]
  /\ checkout = [r \in Repos |-> [p \in Paths |-> 0]]
  /\ wpc = [w \in Workers |-> "idle"]
  /\ job = [w \in Workers |-> 0]
  /\ idx = [w \in Workers |-> 0]
  /\ existing = [w \in Workers |-> [p \in Paths |-> 0]]
  /\ ret = [w \in Workers |-> NoReturn]
  /\ cancelled = FALSE
  /\ wg = NumWorkers
  /\ stopPc = "running"
  /\ api = [pc |-> "idle", repo |-> 0, err |-> "none"]

Init ==
  /\ repos = [r \in Repos |-> NoRow]
  /\ files = [r \in Repos |-> [p \in Paths |-> NoFile]]
  /\ vectors = [r \in Repos |-> [p \in Paths |-> 0]]
  /\ cloned = [r \in Repos |-> FALSE]
  /\ checkout = [r \in Repos |-> [p \in Paths |-> 0]]
  /\ wpc = [w \in Workers |-> "idle"]
  /\ job = [w \in Workers |-> 0]
  /\ idx = [w \in Workers |-> 0]
  /\ existing = [w \in Workers |-> [p \in Paths |-> 0]]
  /\ ret = [w \in Workers |-> NoReturn]
  /\ cancelled = FALSE
  /\ wg = NumWorkers
  /\ stopPc = "running"
  /\ api = [pc |-> "idle", repo |-> 0, err |-> "none"]
  /\ RunIdle
  /\ DbIdle
  /\ LibIdle

\* ---------------------------------------------------------------- repos table

\* UpdateRepoStatus: SET status = $2, error = $3 WHERE id = $1.
UpdateRepoStatus(t, id, status, error) ==
  [t EXCEPT ![id].status = status, ![id].error = error]

\* UpdateStatus as it would be if the UPDATE left the error column alone.
UpdateStatusKeepsError(t, id, status) == [t EXCEPT ![id].status = status]

\* repos.UpdateStatus: passes no Error, so the column is set to NULL.
UpdateStatus(t, id, status) == UpdateRepoStatus(t, id, status, NoError)

\* SetError as it would be if the message were not passed on.
SetErrorNoMessage(t, id, errMsg) == UpdateRepoStatus(t, id, StatusFailed, NoError)

\* repos.SetError: status failed, with the message.
SetError(t, id, errMsg) == UpdateRepoStatus(t, id, StatusFailed, errMsg)

\* repos.UpdateAfterClone / UpdateRepoAfterClone: last_commit_sha and status, not error.
UpdateAfterClone(t, id, commitSHA) ==
  [t EXCEPT ![id].status = StatusIndexing, ![id].commit = commitSHA]

\* The inner SELECT as it would be if it took the oldest row and then looked at its status.
ClaimCandidatesOldestRow(t) ==
  {r \in Repos : /\ t[r].exists /\ t[r].status = StatusPending
                 /\ \A q \in Repos : t[q].exists => t[r].created <= t[q].created}

\* The inner SELECT as it would be without ORDER BY created ASC.
ClaimCandidatesUnordered(t) == {r \in Repos : t[r].exists /\ t[r].status = StatusPending}

\* The inner SELECT of ClaimPendingRepo: WHERE status = 'pending' ORDER BY created ASC
\* LIMIT 1, the pending row of the least created (no such row: the empty set).
ClaimCandidates(t) ==
  LET pending == {r \in Repos : t[r].exists /\ t[r].status = StatusPending}
  IN {r \in pending : \A q \in pending : t[r].created <= t[q].created}

\* ClaimPendingRepo as a bare SELECT: the row is returned and its status left pending.
ClaimPendingRepoNoUpdate(t, id) == t

\* The UPDATE of ClaimPendingRepo: SET status = 'indexing' on the selected row.
ClaimPendingRepo(t, id) == [t EXCEPT ![id].status = StatusIndexing]

\* A call that does not look at the context.
CtxCallOkIgnoresCancel(ok) == ok

\* A call bound to the workers' context: it succeeds when the callee does (ok) and the
\* context is not cancelled.
CtxCallOk(ok) == ok /\ ~cancelled

\* repos.Create: a new row, status pending, created = now.  Ids come from the BIGSERIAL
\* sequence, so a later row has the larger id and the later created.
Create(r) ==
  /\ ~cancelled
  /\ ~repos[r].exists
  /\ \A q \in Repos : q < r => repos[q].exists
  /\ repos' = [repos EXCEPT ![r] = [exists |-> TRUE, status |-> StatusPending,
                                    error |-> NoError, commit |-> 0, created |-> r]]
  /\ UNCHANGED <<storeVars, workerVars, stopVars, api>>
  /\ UNCHANGED auxVars

\* ---------------------------------------------------------------- TriggerReindex

\* repos.TriggerReindex, first half: GetByID and the IsActive check.
TriggerReindexRead(r) ==
  /\ api.pc = "idle"
  /\ ~cancelled
  /\ \E ok \in BOOLEAN :
       api' = IF ~ok THEN [pc |-> "idle", repo |-> 0, err |-> "internal"]
              ELSE IF ~repos[r].exists THEN [pc |-> "idle", repo |-> 0, err |-> "ErrNotFound"]
              ELSE IF IsActive(repos[r].status)
                   THEN [pc |-> "idle", repo |-> 0, err |-> "ErrAlreadyActive"]
              ELSE [pc |-> "write", repo |-> r, err |-> "none"]
  /\ UNCHANGED <<repos, storeVars, workerVars, stopVars>>
  /\ UNCHANGED auxVars

\* repos.TriggerReindex, second half: UpdateStatus(ctx, id, StatusPending).
TriggerReindexWrite ==
  /\ api.pc = "write"
  /\ \E ok \in BOOLEAN :
       IF ok
       THEN /\ repos' = UpdateStatus(repos, api.repo, StatusPending)
            /\ api' = [pc |-> "idle", repo |-> 0, err |-> "ok"]
       ELSE /\ api' = [pc |-> "idle", repo |-> 0, err |-> "internal"]
            /\ UNCHANGED repos
  /\ UNCHANGED <<storeVars, workerVars, stopVars>>
  /\ UNCHANGED auxVars

\* ---------------------------------------------------------------- the checkout

RECURSIVE SortedSeq(_)
SortedSeq(S) == IF S = {} THEN <<>>
                ELSE LET m == CHOOSE x \in S : \A y \in S : x <= y
                     IN <<m>> \o SortedSeq(S \ {m})

\* gitrepo.ListFiles: the indexable paths of the checkout, in filepath.Walk (lexical) order.
ListFiles(tree) == SortedSeq({p \in Paths : tree[p] # 0})

\* The tree a clone of repository r checks out: path -> digest, 0 for no such file.
\* Repository 1 holds every path, repository 2 all but the last, and so on.
Upstream(r) == [p \in Paths |-> IF p + r <= NumPaths + 1 THEN 1 ELSE 0]

\* Chunker.ChunkFile: the number of chunks of a content (a function of the content).
ChunksOf(digest) == digest

\* ---------------------------------------------------------------- the worker

\* IndexRepo returns err to processJob.
Return(w, err) ==
  /\ wpc' = [wpc EXCEPT ![w] = "returned"]
  /\ ret' = [ret EXCEPT ![w] = err]
  /\ job' = [job EXCEPT ![w] = 0]
  /\ idx' = [idx EXCEPT ![w] = 0]
  /\ existing' = [existing EXCEPT ![w] = [p \in Paths |-> 0]]

\* IndexRepo goes on to its next stage.
Goto(w, stage) ==
  /\ wpc' = [wpc EXCEPT ![w] = stage]
  /\ UNCHANGED <<job, idx, existing, ret>>

\* Worker.run takes the ticker case; processJob calls repos.ClaimPending, which runs
\* ClaimPendingRepo in one statement.  With no row, or on an error, processJob returns.
ClaimPending(w) ==
  /\ wpc[w] = "idle"
  /\ CtxCallOk(TRUE)
  /\ \E r \in ClaimCandidates(repos) :
       /\ repos' = ClaimPendingRepo(repos, r)
       /\ job' = [job EXCEPT ![w] = r]
  /\ wpc' = [wpc EXCEPT ![w] = "start"]
  /\ UNCHANGED <<storeVars, idx, existing, ret, stopVars, api>>
  /\ UNCHANGED auxVars

\* IndexRepo, lines 36-51: GetByID, then UpdateStatus(StatusCloning).
Start(w) ==
  /\ wpc[w] = "start"
  /\ \E ok \in BOOLEAN :
       IF CtxCallOk(ok) /\ repos[job[w]].exists
       THEN repos' = UpdateStatus(repos, job[w], StatusCloning) /\ Goto(w, "clone")
       ELSE Return(w, RetWrapped) /\ UNCHANGED repos
  /\ UNCHANGED <<storeVars, stopVars, api>>
  /\ UNCHANGED auxVars

\* IndexRepo, lines 72-78: gitrepo.Clone into GetRepoPath(id).  PlainCloneContext fails
\* when the directory already holds a repository; on failure SetError is called and its
\* own error is dropped.
Clone(w) ==
  /\ wpc[w] = "clone"
  /\ \E okClone \in BOOLEAN, okSet \in BOOLEAN :
       IF CtxCallOk(okClone) /\ ~cloned[job[w]]
       THEN /\ cloned' = [cloned EXCEPT ![job[w]] = TRUE]
            /\ checkout' = [checkout EXCEPT ![job[w]] = Upstream(job[w])]
            /\ Goto(w, "meta")
            /\ UNCHANGED repos
       ELSE /\ repos' = IF CtxCallOk(okSet) THEN SetError(repos, job[w], ErrClone) ELSE repos
            /\ Return(w, RetWrapped)
            /\ UNCHANGED <<cloned, checkout>>
  /\ UNCHANGED <<files, vectors, stopVars, api>>
  /\ UNCHANGED auxVars

\* IndexRepo, lines 80-90: gitrepo.GetMetadata, then repos.UpdateAfterClone.
Metadata(w) ==
  /\ wpc[w] = "meta"
  /\ \E okMeta \in BOOLEAN, okSet \in BOOLEAN :
       IF ~okMeta
       THEN /\ repos' = IF CtxCallOk(okSet) THEN SetError(repos, job[w], ErrMetadata) ELSE repos
            /\ Return(w, RetWrapped)
       ELSE IF CtxCallOk(okSet)
       THEN repos' = UpdateAfterClone(repos, job[w], 1) /\ Goto(w, "list")
       ELSE Return(w, RetWrapped) /\ UNCHANGED repos
  /\ UNCHANGED <<storeVars, stopVars, api>>
  /\ UNCHANGED auxVars

\* IndexRepo, lines 97-117: gitrepo.ListFiles, then ListFilesByRepoID into existingFileMap.
Listed(w, okList, okDb) ==
  IF ~okList
  THEN /\ repos' = IF CtxCallOk(okDb) THEN SetError(repos, job[w], ErrListing) ELSE repos
       /\ Return(w, RetWrapped)
  ELSE IF CtxCallOk(okDb)
  THEN /\ existing' = [existing EXCEPT ![w] = [p \in Paths |-> files[job[w]][p].shasum]]
       /\ idx' = [idx EXCEPT ![w] = 1]
       /\ wpc' = [wpc EXCEPT ![w] = "files"]
       /\ UNCHANGED <<repos, job, ret>>
  ELSE Return(w, RetWrapped) /\ UNCHANGED repos

\* The listing of a worker of the pool: whether gitrepo.ListFiles and the query succeed
\* is open.
List(w) ==
  /\ wpc[w] = "list"
  /\ \E okList \in BOOLEAN, okDb \in BOOLEAN : Listed(w, okList, okDb)
  /\ UNCHANGED <<storeVars, stopVars, api>>
  /\ UNCHANGED auxVars

\* The step of the per-file pipeline that fails for a file, if any.
FileFailures == {"none", "info", "read", "embed", "upsert", "insert"}

\* The incremental check as it would be if the shasums were not compared.
ClassifyByPresence(ex, p, digest) == IF ex[p] = 0 THEN "added" ELSE "changed"

\* IndexRepo, lines 138-147, the incremental check for a walked path p of digest digest:
\* no record in existingFileMap (the file is indexed), a record of the same shasum (the
\* file is skipped), or a record of another shasum (its old chunks are deleted first).
Classify(ex, p, digest) ==
  IF ex[p] = 0 THEN "added"
  ELSE IF ex[p] = digest THEN "unchanged"
  ELSE "changed"

\* IndexRepo, lines 130-185: openai.GenerateBatchEmbeddings is called for the file unless
\* the iteration has ended before (GetFileInfo or ReadFile failed, the file is unchanged,
\* or it has no chunks).
EmbeddingCalled(ex, p, digest, fail) ==
  /\ fail \notin {"info", "read"}
  /\ Classify(ex, p, digest) # "unchanged"
  /\ ChunksOf(digest) > 0

\* IndexRepo, lines 130-232, for the file at path p of repository r: the files table and
\* the vector entries after the iteration.  ex is existingFileMap, fail the failing step,
\* okDel whether milvus.DeleteByFileID succeeds.
ProcessFile(r, p, ex, fail, okDel) ==
  LET digest == checkout[r][p]
      n == ChunksOf(digest)
      same == [files |-> files, vectors |-> vectors]
      deleted == IF Classify(ex, p, digest) = "changed" /\ okDel
                 THEN [vectors EXCEPT ![r][p] = 0]
                 ELSE vectors
      upserted == [files EXCEPT ![r][p] = [shasum |-> digest, chunk_count |-> n]]
  IN IF fail = "info" THEN same
     ELSE IF Classify(ex, p, digest) = "unchanged" THEN same
     ELSE IF fail = "read" \/ n = 0 \/ fail = "embed" \/ fail = "upsert"
          THEN [files |-> files, vectors |-> deleted]
     ELSE IF fail = "insert" THEN [files |-> upserted, vectors |-> deleted]
     ELSE [files |-> upserted, vectors |-> [deleted EXCEPT ![r][p] = @ + n]]

\* The file loop as it would be if a failing file ended it (break instead of continue).
NextIndexBreak(i, fail) == IF fail = "none" THEN i + 1 ELSE NumPaths + 1

\* The file loop after an iteration: a failing file is skipped (continue) and the loop
\* goes on to the next path.
NextIndex(i, fail) == i + 1

\* The file loop as it would be without the select on ctx.Done().
LoopNeverAborts == FALSE

\* IndexRepo, lines 124-128: the select at the top of the loop body takes the ctx.Done()
\* case when the context is cancelled.
LoopAborts == cancelled

\* IndexRepo, lines 123-238: one iteration of the file loop.  The context is looked at
\* first; a cancelled context ends the run with ctx.Err() and no status write.
FileIteration(w, fail, okDel) ==
  /\ wpc[w] = "files"
  /\ idx[w] <= Len(ListFiles(checkout[job[w]]))
  /\ IF LoopAborts
     THEN /\ Return(w, RetCtxErr)
          /\ UNCHANGED <<files, vectors>>
     ELSE LET res == ProcessFile(job[w], ListFiles(checkout[job[w]])[idx[w]],
                                 existing[w], fail, okDel)
          IN /\ files' = res.files
             /\ vectors' = res.vectors
             /\ idx' = [idx EXCEPT ![w] = NextIndex(idx[w], fail)]
             /\ UNCHANGED <<wpc, job, existing, ret>>
  /\ UNCHANGED <<repos, cloned, checkout, stopVars, api>>

\* A worker of the pool makes one iteration of the file loop.
FileStep(w) ==
  /\ \E fail \in FileFailures, okDel \in BOOLEAN : FileIteration(w, fail, okDel)
  /\ UNCHANGED auxVars

\* IndexRepo, lines 240-252: after the last file, UpdateStatus(StatusCompleted).
Finish(w) ==
  /\ wpc[w] = "files"
  /\ idx[w] > Len(ListFiles(checkout[job[w]]))
  /\ \E ok \in BOOLEAN :
       IF CtxCallOk(ok)
       THEN repos' = UpdateStatus(repos, job[w], StatusCompleted) /\ Return(w, RetNil)
       ELSE Return(w, RetWrapped) /\ UNCHANGED repos
  /\ UNCHANGED <<storeVars, stopVars, api>>
  /\ UNCHANGED auxVars

\* processJob, lines 368-375: the error of IndexRepo, if any, is logged; processJob
\* returns to the loop of Worker.run, where the goroutine waits for the next tick.
ProcessJobReturn(w) ==
  /\ wpc[w] = "returned"
  /\ wpc' = [wpc EXCEPT ![w] = "idle"]
  /\ ret' = [ret EXCEPT ![w] = NoReturn]
  /\ UNCHANGED <<repos, storeVars, job, idx, existing, stopVars, api>>
  /\ UNCHANGED auxVars

\* Worker.run takes the ctx.Done() case: the goroutine returns and the deferred
\* wg.Done() runs.
WorkerExit(w) ==
  /\ wpc[w] = "idle"
  /\ cancelled
  /\ wpc' = [wpc EXCEPT ![w] = "exited"]
  /\ wg' = wg - 1
  /\ UNCHANGED <<repos, storeVars, job, idx, existing, ret, cancelled, stopPc, api>>
  /\ UNCHANGED auxVars

\* ---------------------------------------------------------------- shutdown

\* Worker.stop, lines 322-326: w.cancel().  fx runs the OnStop hooks in reverse order, so
\* the HTTP server (api.Run, appended last) has shut down before Worker.stop is called.
Stop ==
  /\ stopPc = "running"
  /\ api.pc = "idle"
  /\ cancelled' = TRUE
  /\ stopPc' = "waiting"
  /\ UNCHANGED <<repos, storeVars, workerVars, wg, api>>
  /\ UNCHANGED auxVars

\* Worker.stop as it would be without the wait.
WaitReturnsAtOnce == TRUE

\* wg.Wait() returns when the counter is zero.
WaitReturns == wg = 0

\* Worker.stop, lines 327-328: w.wg.Wait() returns, "all workers stopped".
StopReturn ==
  /\ stopPc = "waiting"
  /\ WaitReturns
  /\ stopPc' = "stopped"
  /\ UNCHANGED <<repos, storeVars, workerVars, cancelled, wg, api>>
  /\ UNCHANGED auxVars

\* The process is started again after a shutdown: StartWorker's OnStart hook makes a new
\* context and Worker.start launches the goroutines.  The database, the vector store and
\* the clone directory are as the stopped process left them.
Restart ==
  /\ stopPc = "stopped"
  /\ cancelled' = FALSE
  /\ wg' = NumWorkers
  /\ stopPc' = "running"
  /\ wpc' = [w \in Workers |-> "idle"]
  /\ UNCHANGED <<repos, storeVars, job, idx, existing, ret, api>>
  /\ UNCHANGED auxVars

Next ==
  \/ \E r \in Repos : Create(r)
  \/ \E r \in Repos : TriggerReindexRead(r)
  \/ TriggerReindexWrite
  \/ \E w \in Workers : ClaimPending(w)
  \/ \E w \in Workers : Start(w)
  \/ \E w \in Workers : Clone(w)
  \/ \E w \in Workers : Metadata(w)
  \/ \E w \in Workers : List(w)
  \/ \E w \in Workers : FileStep(w)
  \/ \E w \in Workers : Finish(w)
  \/ \E w \in Workers : ProcessJobReturn(w)
  \/ \E w \in Workers : WorkerExit(w)
  \/ Stop
  \/ StopReturn
  \/ Restart

Spec == Init /\ [][Next]_vars

\* A step of worker w's goroutine: the ticker case of Worker.run with the processJob call
\* it makes, a stage of IndexRepo, or the ctx.Done() case.
WorkerStep(w) ==
  \/ ClaimPending(w) \/ Start(w) \/ Clone(w) \/ Metadata(w) \/ List(w)
  \/ FileStep(w) \/ Finish(w) \/ ProcessJobReturn(w) \/ WorkerExit(w)

\* The goroutines are scheduled and their tickers fire, every call they make returns,
\* wg.Wait() returns once it can, and a stopped process is started again.  Requests to
\* the API and shutdown signals come as they may.
FairSpec ==
  /\ Spec
  /\ \A w \in Workers : WF_vars(WorkerStep(w))
  /\ WF_vars(StopReturn)
  /\ WF_vars(Restart)

\* The pool as MaxConcurrentJobs = 1 makes it, with no shutdown: the API and the one
\* goroutine Worker.start launches.
PollNext ==
  \/ \E r \in Repos : Create(r)
  \/ \E r \in Repos : TriggerReindexRead(r)
  \/ TriggerReindexWrite
  \/ ClaimPending(1)
  \/ Start(1)
  \/ Clone(1)
  \/ Metadata(1)
  \/ List(1)
  \/ FileStep(1)
  \/ Finish(1)
  \/ ProcessJobReturn(1)

\* The goroutine is scheduled, its ticker fires and every call it makes returns.
PollSpec == Init /\ [][PollNext]_vars /\ WF_vars(WorkerStep(1))

\* ---------------------------------------------------------------- repeated runs

\* The pipeline run again and again, by one worker, on repository 1, each run on a fresh
\* clone of whatever tree the upstream holds at that time.

MaxDigest == 2     \* contents a path can have
MaxRuns == 3       \* runs of the pipeline

Trees == [Paths -> 0..MaxDigest]

RunInit ==
  /\ repos = [r \in Repos |-> IF r = 1
                              THEN [exists |-> TRUE, status |-> StatusPending,
                                    error |-> NoError, commit |-> 0, created |-> 1]
                              ELSE NoRow]
  /\ files = [r \in Repos |-> [p \in Paths |-> NoFile]]
  /\ vectors = [r \in Repos |-> [p \in Paths |-> 0]]
  /\ cloned = [r \in Repos |-> FALSE]
  /\ checkout = [r \in Repos |-> [p \in Paths |-> 0]]
  /\ wpc = [w \in Workers |-> "idle"]
  /\ job = [w \in Workers |-> 0]
  /\ idx = [w \in Workers |-> 0]
  /\ existing = [w \in Workers |-> [p \in Paths |-> 0]]
  /\ ret = [w \in Workers |-> NoReturn]
  /\ cancelled = FALSE
  /\ wg = NumWorkers
  /\ stopPc = "running"
  /\ api = [pc |-> "idle", repo |-> 0, err |-> "none"]
  /\ RunIdle
  /\ DbIdle
  /\ LibIdle

\* A run of repository 1 up to the listing: the repository is set pending (by Create, or
\* by TriggerReindex, which takes it in no active status), claimed by worker 1, set to
\* cloning, cloned into an empty directory and set to indexing by UpdateAfterClone.
NextRun(tree) ==
  /\ wpc[1] = "idle"
  /\ runs < MaxRuns
  /\ repos[1].exists
  /\ ~IsActive(repos[1].status)
  /\ repos' = UpdateAfterClone(
                UpdateStatus(
                  ClaimPendingRepo(UpdateStatus(repos, 1, StatusPending), 1),
                  1, StatusCloning),
                1, 1)
  /\ checkout' = [checkout EXCEPT ![1] = tree]
  /\ cloned' = [cloned EXCEPT ![1] = TRUE]
  /\ job' = [job EXCEPT ![1] = 1]
  /\ wpc' = [wpc EXCEPT ![1] = "list"]
  /\ runs' = runs + 1
  /\ sameTree' = (repos[1].status = StatusCompleted /\ tree = checkout[1])
  /\ calls' = 0
  /\ class' = [p \in Paths |-> "none"]
  /\ UNCHANGED <<files, vectors, idx, existing, ret, stopVars, api, embedded, dbVars, libVars>>

\* One iteration of the file loop of that run, with a note of the branch the incremental
\* check took and of the call of the embedding service.
RunFileStep ==
  \E fail \in FileFailures, okDel \in BOOLEAN :
    /\ FileIteration(1, fail, okDel)
    /\ LET p == ListFiles(checkout[1])[idx[1]]
           digest == checkout[1][p]
       IN /\ class' = [class EXCEPT ![p] = IF fail = "info" THEN "no digest"
                                           ELSE Classify(existing[1], p, digest)]
          /\ calls' = IF EmbeddingCalled(existing[1], p, digest, fail)
                      THEN calls + 1 ELSE calls
          /\ embedded' = IF EmbeddingCalled(existing[1], p, digest, fail) /\ fail # "embed"
                         THEN embedded \cup {digest} ELSE embedded
    /\ UNCHANGED <<runs, sameTree, dbVars, libVars>>

\* DELETE /v1/repositories/:id for repository 1, with no run in flight:
\* milvus.DeleteByRepoID (a failure is logged and the handler goes on), repos.Delete
\* (GetByID, then DeleteRepo; on a failure the handler answers with an error), and
\* gitrepo.CleanupRepo (a failure is logged).  Nothing deletes the rows of the files table.
Delete ==
  /\ wpc[1] = "idle"
  /\ repos[1].exists
  /\ \E okMilvus \in BOOLEAN, okDb \in BOOLEAN, okCleanup \in BOOLEAN :
       /\ vectors' = IF okMilvus THEN [vectors EXCEPT ![1] = [p \in Paths |-> 0]]
                     ELSE vectors
       /\ IF okDb
          THEN /\ repos' = [repos EXCEPT ![1] = NoRow]
               /\ cloned' = [cloned EXCEPT ![1] = cloned[1] /\ ~okCleanup]
               /\ checkout' = IF okCleanup
                              THEN [checkout EXCEPT ![1] = [p \in Paths |-> 0]]
                              ELSE checkout
          ELSE UNCHANGED <<repos, cloned, checkout>>
  /\ UNCHANGED <<files, workerVars, stopVars, api, auxVars>>

RunNext ==
  \/ \E tree \in Trees : NextRun(tree)
  \/ List(1)
  \/ RunFileStep
  \/ Finish(1)
  \/ ProcessJobReturn(1)
  \/ Delete

RunSpec == RunInit /\ [][RunNext]_vars

\* ---------------------------------------------------------------- db executor

\* One call of db.Query, Query1, Tx or Tx1 with a unit of work fn.  Every attempt is one
\* step; what Acquire, Begin, fn and Commit return is drawn from Outcomes.  A Commit that
\* returns an error has not committed.

maxRetries == 3

\* Errors an attempt can end with: PostgreSQL codes, an error pgconn.SafeToRetry accepts,
\* and the context's error.
SafeToRetry == "safe to retry"
RetryableCodes == {"40001", "40P01", "08000", "08003", "08006"}
Outcomes == {"nil", "40001", "40P01", "08006", SafeToRetry, "23505", "context canceled"}
Results == {1, 2}
Kinds == {"Query", "Query1", "Tx", "Tx1"}

\* isRetryableError as it would be if every error were retried.
isRetryableAlways(err) == err # "nil"

\* isRetryableError: pgconn.SafeToRetry, or a PgError with a whitelisted code.
isRetryableError(err) ==
  /\ err # "nil"
  /\ (err = SafeToRetry \/ err \in RetryableCodes)

\* executeTx as it would be if the transaction were committed whatever fn returned.
executeTxCommitsAnyway(kind, beginErr, fnErr, commitErr, v) ==
  IF beginErr # "nil"
  THEN [err |-> beginErr, result |-> 0, called |-> FALSE, committed |-> FALSE]
  ELSE IF commitErr # "nil"
  THEN [err |-> commitErr, result |-> 0, called |-> TRUE, committed |-> FALSE]
  ELSE [err |-> fnErr, result |-> IF kind = "Tx1" /\ fnErr = "nil" THEN v ELSE 0,
        called |-> TRUE, committed |-> TRUE]

\* executeTx / executeTx1: Begin, the deferred Rollback, fn, Commit.  The transaction is
\* committed only when Begin, fn and Commit all return nil; on every other path the
\* deferred Rollback ends it.
executeTx(kind, beginErr, fnErr, commitErr, v) ==
  IF beginErr # "nil"
  THEN [err |-> beginErr, result |-> 0, called |-> FALSE, committed |-> FALSE]
  ELSE IF fnErr # "nil"
  THEN [err |-> fnErr, result |-> 0, called |-> TRUE, committed |-> FALSE]
  ELSE IF commitErr # "nil"
  THEN [err |-> commitErr, result |-> 0, called |-> TRUE, committed |-> FALSE]
  ELSE [err |-> "nil", result |-> IF kind = "Tx1" THEN v ELSE 0,
        called |-> TRUE, committed |-> TRUE]

\* The body of the retry loop after the backoff: Query and Query1 call fn on the pool;
\* Tx and Tx1 acquire a connection (on failure fn is not called) and call executeTx.
AttemptOutcome(kind, acqErr, beginErr, fnErr, commitErr, v) ==
  IF kind \in {"Query", "Query1"}
  THEN [err |-> fnErr, result |-> IF kind = "Query1" THEN v ELSE 0,
        called |-> TRUE, committed |-> FALSE]
  ELSE IF acqErr # "nil"
  THEN [err |-> acqErr, result |-> 0, called |-> FALSE, committed |-> FALSE]
  ELSE executeTx(kind, beginErr, fnErr, commitErr, v)

\* A call of one of the four functions has entered its loop.
DbInit ==
  /\ repos = [r \in Repos |-> NoRow]
  /\ files = [r \in Repos |-> [p \in Paths |-> NoFile]]
  /\ vectors = [r \in Repos |-> [p \in Paths |-> 0]]
  /\ cloned = [r \in Repos |-> FALSE]
  /\ checkout = [r \in Repos |-> [p \in Paths |-> 0]]
  /\ wpc = [w \in Workers |-> "idle"]
  /\ job = [w \in Workers |-> 0]
  /\ idx = [w \in Workers |-> 0]
  /\ existing = [w \in Workers |-> [p \in Paths |-> 0]]
  /\ ret = [w \in Workers |-> NoReturn]
  /\ cancelled = FALSE
  /\ wg = NumWorkers
  /\ stopPc = "running"
  /\ api = [pc |-> "idle", repo |-> 0, err |-> "none"]
  /\ RunIdle
  /\ dpc = "attempt"
  /\ dkind \in Kinds
  /\ dattempt = 0
  /\ dcalls = 0
  /\ dlast = "nil"
  /\ dfnres = 0
  /\ dret = [err |-> "nil", result |-> 0]
  /\ dvisible = {}
  /\ dcancel = FALSE
  /\ LibIdle

\* The call returns err and result to its caller.
DbReturn(err, result) ==
  /\ dpc' = "done"
  /\ dret' = [err |-> err, result |-> result]
  /\ UNCHANGED dattempt

\* One pass of the loop body: the attempt, then return nil, return the error as it is when
\* it is not retryable, go round again, or leave the loop after the last attempt with the
\* error wrapped ("failed after 3 attempts").
DbAttempt ==
  /\ dpc = "attempt"
  /\ \E acqErr \in Outcomes, beginErr \in Outcomes, fnErr \in Outcomes,
        commitErr \in Outcomes, v \in Results :
       LET o == AttemptOutcome(dkind, acqErr, beginErr, fnErr, commitErr, v)
       IN /\ dcalls' = IF o.called THEN dcalls + 1 ELSE dcalls
          /\ dfnres' = IF o.called THEN v ELSE dfnres
          /\ dvisible' = IF o.committed THEN dvisible \cup {dattempt} ELSE dvisible
          /\ dlast' = o.err
          /\ IF o.err = "nil" THEN DbReturn("nil", o.result)
             ELSE IF ~isRetryableError(o.err) THEN DbReturn(o.err, o.result)
             ELSE IF dattempt + 1 < maxRetries
             THEN dpc' = "backoff" /\ dattempt' = dattempt + 1 /\ UNCHANGED dret
             ELSE DbReturn("failed after 3 attempts", o.result)
  /\ UNCHANGED <<dkind, dcancel>>
  /\ UNCHANGED <<repos, storeVars, workerVars, stopVars, api, runVars, libVars>>

\* The select before a further attempt: time.After(delay) fires and the loop goes on, or,
\* with the context cancelled, the call returns ctx.Err().
DbBackoff ==
  /\ dpc = "backoff"
  /\ \/ dpc' = "attempt" /\ UNCHANGED dret
     \/ dcancel /\ DbReturn("context canceled", 0)
  /\ UNCHANGED <<dkind, dattempt, dcalls, dlast, dfnres, dvisible, dcancel>>
  /\ UNCHANGED <<repos, storeVars, workerVars, stopVars, api, runVars, libVars>>

\* The caller's context is cancelled while the call is under way.
DbCancel ==
  /\ dpc \in {"attempt", "backoff"}
  /\ ~dcancel
  /\ dcancel' = TRUE
  /\ UNCHANGED <<dpc, dkind, dattempt, dcalls, dlast, dfnres, dret, dvisible>>
  /\ UNCHANGED <<repos, storeVars, workerVars, stopVars, api, runVars, libVars>>

DbNext == DbAttempt \/ DbBackoff \/ DbCancel

DbSpec == DbInit /\ [][DbNext]_vars

\* ---------------------------------------------------------------- embedding cache

\* The embedding_cache table and the two statements that use it.  content_hash alone is
\* the primary key.  The timestamps last_used and created order the eviction only and
\* are left out.

\* INSERT INTO embedding_cache ... ON CONFLICT (content_hash) DO UPDATE SET
\* use_count = use_count + 1, last_used = $4: a row that is there keeps its embedding and
\* its model.
CacheUpsert(c, d, v, m) ==
  IF c[d].present
  THEN [c EXCEPT ![d].use_count = @ + 1]
  ELSE [c EXCEPT ![d] = [present |-> TRUE, embedding |-> v, model |-> m, use_count |-> 1]]

\* SELECT content_hash, embedding FROM embedding_cache WHERE content_hash = ANY($1), for
\* one hash: the row's embedding, whatever model the caller asks for.
CacheSelect(c, d, m) == [hit |-> c[d].present, out |-> c[d].embedding]

CacheStore ==
  \E d \in Hashes, m \in Models, v \in Vecs :
    /\ cache[d].use_count < MaxUses
    /\ cache' = CacheUpsert(cache, d, v, m)
    /\ clast' = [op |-> "store", content_hash |-> d, model |-> m, embedding |-> v,
                 hit |-> FALSE, out |-> 0]
    /\ UNCHANGED <<pipelineVars, runVars, dbVars, embVars, walkVars>>

CacheLookup ==
  \E d \in Hashes, m \in Models :
    /\ clast' = [op |-> "lookup", content_hash |-> d, model |-> m, embedding |-> 0,
                 hit |-> CacheSelect(cache, d, m).hit, out |-> CacheSelect(cache, d, m).out]
    /\ UNCHANGED <<cache, pipelineVars, runVars, dbVars, embVars, walkVars>>

CacheInit == PipelineIdle /\ RunIdle /\ DbIdle /\ LibIdle

CacheNext == CacheStore \/ CacheLookup

CacheSpec == CacheInit /\ [][CacheNext]_vars

\* ---------------------------------------------------------------- embedding service

\* One call of openai.GenerateBatchEmbeddings on the chunk texts of a file.  A text is its
\* content and its length in bytes; every request to the service is one step, and what
\* the service answers is drawn from Responses.

MaxTokensPerRequest == 8000
MaxTextsPerBatch == 2048
DefaultMaxSize == 500

MaxBatches == 2     \* the texts of a call fill that many requests, and one more
NumContents == 3    \* chunk contents

\* Lengths of the argument: around every multiple of MaxTextsPerBatch.
TextCounts == {n \in {k * MaxTextsPerBatch + o : k \in 0..MaxBatches, o \in {-1, 0, 1, 2}} :
                 n >= 0}

\* Lengths in bytes of a chunk Chunker.ChunkFile returns under WithMaxSize(DefaultMaxSize),
\* at four bytes a token.
ChunkLens == {0, 16, 4 * DefaultMaxSize}

\* IndexRepo, lines 176-179: chunkTexts, here n texts of len bytes whose contents repeat
\* with period NumContents, taken in steps of k.
ChunkTexts(n, len, k) == [i \in 1..n |-> [content |-> (i * k) % NumContents, len |-> len]]

\* EstimateTokens: len(text) / 4.
EstimateTokens(text) == text.len \div 4

\* The float64 vector the service computes for a text, as a number whose two low bits
\* do not fit a float32.
Embedding64(text) == 8 * text.content + 5

\* float32(v): the value without the bits a float32 cannot hold.
ToFloat32(v) == v - (v % 4)

\* What client.Embeddings.New can return for a request: an error, or Data in the order
\* of the Input, complete, one short, or empty.
ResponseKinds == {"error", "full", "short", "empty"}
Response(kind, batch) ==
  [err |-> kind = "error",
   data |-> IF kind = "full" THEN [i \in 1..Len(batch) |-> Embedding64(batch[i])]
            ELSE IF kind = "short" THEN [i \in 1..(Len(batch) - 1) |-> Embedding64(batch[i])]
            ELSE <<>>]

\* generateBatchEmbeddingsInternal as it would be without the comparison of lengths.
generateBatchNoLengthCheck(batch, resp) ==
  IF resp.err
  THEN [err |-> "failed to generate embeddings", embeddings |-> <<>>]
  ELSE [err |-> "nil", embeddings |-> [i \in 1..Len(resp.data) |-> ToFloat32(resp.data[i])]]

\* generateBatchEmbeddingsInternal, lines 91-117: the error of the request, an error when
\* len(resp.Data) differs from len(texts), else resp.Data[i] converted, in Data's order.
generateBatchEmbeddingsInternal(batch, resp) ==
  IF resp.err
  THEN [err |-> "failed to generate embeddings", embeddings |-> <<>>]
  ELSE IF Len(resp.data) # Len(batch)
  THEN [err |-> "expected n embeddings, got m", embeddings |-> <<>>]
  ELSE [err |-> "nil", embeddings |-> [i \in 1..Len(resp.data) |-> ToFloat32(resp.data[i])]]

\* The accumulation as it would be with = in place of append.
AppendOverwrites(all, embeddings) == embeddings

\* GenerateBatchEmbeddings, line 84: allEmbeddings = append(allEmbeddings, embeddings...).
AppendEmbeddings(all, embeddings) == all \o embeddings

\* GenerateBatchEmbeddings, lines 73-76: end of the batch that starts at offset i.
BatchEnd(i, n) == IF i + MaxTextsPerBatch > n THEN n ELSE i + MaxTextsPerBatch

EmbReturn(err, embeddings) ==
  /\ epc' = "done"
  /\ eret' = [err |-> err, embeddings |-> embeddings]

\* GenerateBatchEmbeddings, lines 58-67: no text, or no API key.
EmbCall ==
  /\ epc = "call"
  /\ IF Len(texts) = 0 THEN EmbReturn("nil", <<>>)
     ELSE IF ~apiKey THEN EmbReturn("OpenAI API key is not configured", <<>>)
     ELSE epc' = "loop" /\ UNCHANGED eret
  /\ UNCHANGED <<texts, apiKey, ei, allEmbeddings, sent, eresp>>
  /\ UNCHANGED <<pipelineVars, runVars, dbVars, cacheVars, walkVars>>

\* GenerateBatchEmbeddings, lines 72-87: one iteration of the loop, and the return that
\* follows the last one.
EmbBatch ==
  /\ epc = "loop"
  /\ ei < Len(texts)
  /\ \E kind \in ResponseKinds :
       LET end == BatchEnd(ei, Len(texts))
           batch == SubSeq(texts, ei + 1, end)
           res == generateBatchEmbeddingsInternal(batch, Response(kind, batch))
           all == AppendEmbeddings(allEmbeddings, res.embeddings)
       IN /\ sent' = batch
          /\ eresp' = kind
          /\ IF res.err # "nil"
             THEN /\ EmbReturn("failed to generate batch embeddings", <<>>)
                  /\ UNCHANGED <<ei, allEmbeddings>>
             ELSE /\ allEmbeddings' = all
                  /\ ei' = ei + MaxTextsPerBatch
                  /\ IF ei + MaxTextsPerBatch < Len(texts)
                     THEN UNCHANGED <<epc, eret>>
                     ELSE EmbReturn("nil", all)
  /\ UNCHANGED <<texts, apiKey>>
  /\ UNCHANGED <<pipelineVars, runVars, dbVars, cacheVars, walkVars>>

EmbInit ==
  /\ PipelineIdle /\ RunIdle /\ DbIdle /\ CacheIdle /\ WalkIdle
  /\ \E n \in TextCounts, len \in ChunkLens, k \in 1..2 : texts = ChunkTexts(n, len, k)
  /\ apiKey \in BOOLEAN
  /\ epc = "call"
  /\ ei = 0
  /\ allEmbeddings = <<>>
  /\ sent = <<>>
  /\ eresp = "none"
  /\ eret = [err |-> "nil", embeddings |-> <<>>]

EmbNext == EmbCall \/ EmbBatch

EmbSpec == EmbInit /\ [][EmbNext]_vars

\* ---------------------------------------------------------------- directory walk

\* gitrepo.ListFiles on the clone directory of repository 1, and what IndexRepo does with
\* its result.  The directory is the list of its entries below the root in the order
\* filepath.Walk visits them (lexical, a directory before its content).  An entry is a
\* file or a directory of the root or of a directory of the root (under: the index of
\* that directory, 0 for the root); fault says what the file system refuses for it:
\* "lstat" (os.Lstat of the entry fails) or "readdir" (the directory cannot be read);
\* keep says that the callback's filters let it through (a file that is not hidden, not
\* too large and indexable; a directory that is neither hidden nor in isSkippedDir).

NumEntries == 3    \* entries below the root

EntryValues == [kind : {"file", "dir"}, under : 0..NumEntries,
                fault : {"none", "lstat", "readdir"}, keep : BOOLEAN]

\* The lists of entries a directory tree gives: only a directory can be unreadable, an
\* entry lies in the root or in the directory of the root that precedes it, and an
\* unreadable or unlisted directory shows no content.
IsTree(es) ==
  \A i \in 1..Len(es) :
    /\ es[i].fault = "readdir" => es[i].kind = "dir"
    /\ es[i].under # 0 =>
         /\ es[i].under < i
         /\ es[es[i].under].kind = "dir"
         /\ es[es[i].under].under = 0
         /\ es[es[i].under].fault = "none"
         /\ \A j \in (es[i].under + 1)..(i - 1) : es[j].under = es[i].under

Dirs == {es \in UNION {[1..n -> EntryValues] : n \in 0..NumEntries} : IsTree(es)}

\* ListFiles, lines 109-147, the function given to filepath.Walk: what it returns for
\* entry e when Walk passes it the error err ("append": nil, after files = append(...)).
walkFn(e, err) ==
  IF err THEN "err"
  ELSE IF e.kind = "dir" THEN (IF e.keep THEN "nil" ELSE "SkipDir")
  ELSE IF e.keep THEN "append" ELSE "nil"

\* filepath.Walk from entry i on: an entry below a skipped directory is not visited; an
\* entry whose Lstat fails is passed with the error; a directory is passed once and, if
\* it cannot be read, a second time with the error; an error the function returns ends
\* the walk.
RECURSIVE Walk(_, _, _, _)
Walk(es, i, skipped, acc) ==
  IF i > Len(es) THEN [files |-> acc, err |-> "nil"]
  ELSE IF es[i].under \in skipped THEN Walk(es, i + 1, skipped, acc)
  ELSE LET first == walkFn(es[i], es[i].fault = "lstat")
           second == IF first = "nil" /\ es[i].fault = "readdir"
                     THEN walkFn(es[i], TRUE) ELSE first
       IN IF second = "err" THEN [files |-> acc, err |-> "walk error"]
          ELSE IF second = "SkipDir" THEN Walk(es, i + 1, skipped \cup {i}, acc)
          ELSE IF second = "append" THEN Walk(es, i + 1, skipped, Append(acc, i))
          ELSE Walk(es, i + 1, skipped, acc)

\* IndexRepo, lines 97-117, on the directory: the listing, then SetError on its error or
\* the query of the file records.
WalkList ==
  /\ wpc[1] = "list"
  /\ wres = "none"
  /\ LET r == Walk(entries, 1, {}, <<>>)
     IN /\ wfiles' = r.files
        /\ wres' = r.err
        /\ \E okDb \in BOOLEAN : Listed(1, r.err = "nil", okDb)
  /\ UNCHANGED <<storeVars, stopVars, api, entries>>
  /\ UNCHANGED <<runVars, dbVars, cacheVars, embVars>>

\* Repository 1 is cloned and set to indexing by UpdateAfterClone; worker 1 is about to
\* list its directory.
WalkInit ==
  /\ repos = [r \in Repos |-> IF r = 1
                              THEN [exists |-> TRUE, status |-> StatusIndexing,
                                    error |-> NoError, commit |-> 1, created |-> 1]
                              ELSE NoRow]
  /\ files = [r \in Repos |-> [p \in Paths |-> NoFile]]
  /\ vectors = [r \in Repos |-> [p \in Paths |-> 0]]
  /\ cloned = [r \in Repos |-> r = 1]
  /\ checkout = [r \in Repos |-> [p \in Paths |-> 0]]
  /\ wpc = [w \in Workers |-> IF w = 1 THEN "list" ELSE "idle"]
  /\ job = [w \in Workers |-> IF w = 1 THEN 1 ELSE 0]
  /\ idx = [w \in Workers |-> 0]
  /\ existing = [w \in Workers |-> [p \in Paths |-> 0]]
  /\ ret = [w \in Workers |-> NoReturn]
  /\ cancelled = FALSE
  /\ wg = NumWorkers
  /\ stopPc = "running"
  /\ api = [pc |-> "idle", repo |-> 0, err |-> "none"]
  /\ RunIdle /\ DbIdle /\ CacheIdle /\ EmbIdle
  /\ entries \in Dirs
  /\ wfiles = <<>>
  /\ wres = "none"

WalkNext == WalkList

WalkSpec == WalkInit /\ [][WalkNext]_vars

\* ---------------------------------------------------------------- properties

\* Worker w ends its IndexRepo call in this step.
RunEnds(w) == job[w] # 0 /\ job'[w] = 0

\* Worker w takes a step of its own.
Acts(w) == wpc'[w] # wpc[w] \/ idx'[w] # idx[w]

\* C1: a ClaimPending call that returns a repository finds it pending and leaves it
\* 'indexing' in the same step, and hands it to the calling worker alone; a second call
\* can return it only after something has set it pending again.
C1_ClaimIsAtomic ==
  [][\A w \in Workers :
       (wpc[w] = "idle" /\ wpc'[w] = "start") =>
         /\ job'[w] \in Repos
         /\ repos[job'[w]].exists
         /\ repos[job'[w]].status = StatusPending
         /\ repos'[job'[w]].status = StatusIndexing
         /\ \A v \in Workers \ {w} : job'[v] = job[v]]_vars

\* Two workers hold two different claimed repositories at once.
C1_Witness ==
  /\ wpc[1] = "start" /\ wpc[2] = "start"
  /\ job[1] # job[2]
  /\ repos[job[1]].status = StatusIndexing /\ repos[job[2]].status = StatusIndexing

\* C2: at most one IndexRepo execution is active for a repository at any time.
C2_OneRunPerRepo ==
  \A w \in Workers, v \in Workers : (w # v /\ job[w] # 0) => job[w] # job[v]

\* The status changes the state machine Pending -> Cloning -> Indexing ->
\* {Completed | Failed} allows.
AllowedTransitions ==
  { <<StatusPending, StatusCloning>>, <<StatusCloning, StatusIndexing>>,
    <<StatusIndexing, StatusCompleted>>, <<StatusCloning, StatusFailed>>,
    <<StatusIndexing, StatusFailed>> }

\* C3: from the claim of a repository to the end of its run its status changes only
\* along Pending -> Cloning -> Indexing -> Completed, or from an active status to Failed.
C3_RunTransitions ==
  [][\A r \in Repos :
       ( /\ repos[r].exists
         /\ repos'[r].status # repos[r].status
         /\ \E w \in Workers : job[w] = r \/ job'[w] = r )
       => <<repos[r].status, repos'[r].status>> \in AllowedTransitions]_vars

\* C4: TriggerReindex sets a repository pending only if its status is not active, answers
\* ErrAlreadyActive without a write when it is, and ErrNotFound when there is no such row.
C4_ReindexOnlyWhenIdle ==
  [][/\ (api.pc = "write" /\ api'.err = "ok") =>
          /\ ~IsActive(repos[api.repo].status)
          /\ repos'[api.repo].status = StatusPending
     /\ (api.pc = "idle" /\ api' # api /\ api'.err = "ErrAlreadyActive") =>
          /\ repos' = repos
          /\ \E r \in Repos : repos[r].exists /\ IsActive(repos[r].status)
     /\ (api.pc = "idle" /\ api' # api /\ api'.err = "ErrNotFound") =>
          /\ repos' = repos
          /\ \E r \in Repos : ~repos[r].exists]_vars

\* The stores and the workers are as they were.
NothingElseMoves ==
  /\ files' = files /\ vectors' = vectors
  /\ cloned' = cloned /\ checkout' = checkout
  /\ wpc' = wpc /\ job' = job /\ idx' = idx /\ existing' = existing /\ ret' = ret

C7_StopWaitsForWorkers ==
  stopPc = "stopped" => \A w \in Workers : wpc[w] = "exited" /\ job[w] = 0

\* Worker.stop has returned, and a run that was cloning when it was called is over.
C7_Witness ==
  /\ stopPc = "stopped"
  /\ \A w \in Workers : wpc[w] = "exited"
  /\ \E r \in Repos : repos[r].status = StatusCloning

C9_StageFailureFails ==
  [][\A w \in Workers :
       (wpc[w] \in {"clone", "meta"} /\ RunEnds(w)) =>
         /\ repos'[job[w]].status = StatusFailed
         /\ repos'[job[w]].error # NoError]_vars

\* C10: while the context is not cancelled, every pass of the file loop goes on to the
\* next listed file whatever failed for the file at hand and writes no status; after
\* the last file the run ends, and the only status it writes is Completed, with an
\* empty error message.
C10_FileFailuresAreSkipped ==
  [][\A w \in Workers :
       (wpc[w] = "files" /\ ~cancelled /\ Acts(w)) =>
         IF idx[w] <= Len(ListFiles(checkout[job[w]]))
         THEN /\ wpc'[w] = "files" /\ job'[w] = job[w]
              /\ idx'[w] = idx[w] + 1
              /\ repos' = repos
         ELSE /\ RunEnds(w)
              /\ \/ repos' = [repos EXCEPT ![job[w]].status = StatusCompleted,
                                           ![job[w]].error = NoError]
                 \/ repos' = repos]_vars

\* A run completed although its first file failed: the second file is indexed.
C10_Witness ==
  /\ repos[1].status = StatusCompleted
  /\ repos[1].error = NoError
  /\ checkout[1][1] # 0 /\ files[1][1].shasum = 0
  /\ files[1][2].shasum # 0 /\ vectors[1][2] > 0

\* C11: when the context is cancelled and the file loop has a next file, the run does not
\* start that file: IndexRepo returns ctx.Err() as it is, and the step writes no status
\* (the repository becomes neither Failed nor Completed), no file record and no vector
\* entry.
C11_CancelledLoopReturnsCtxErr ==
  [][\A w \in Workers :
       ( /\ wpc[w] = "files" /\ cancelled /\ Acts(w)
         /\ idx[w] <= Len(ListFiles(checkout[job[w]])) )
       => /\ RunEnds(w)
          /\ wpc'[w] = "returned" /\ ret'[w] = RetCtxErr
          /\ repos' = repos
          /\ files' = files /\ vectors' = vectors]_vars

\* A run was aborted between its first and its second file: IndexRepo has returned
\* ctx.Err(), the first file is indexed, the second is not, the status is still Indexing.
C11_Witness ==
  \E w \in Workers :
    /\ wpc[w] = "returned" /\ ret[w] = RetCtxErr
    /\ repos[1].status = StatusIndexing
    /\ files[1][1].shasum # 0 /\ vectors[1][1] > 0
    /\ files[1][2].shasum = 0 /\ vectors[1][2] = 0

\* The process has stopped and left repository r in an active status that no run holds.
Abandoned(r) ==
  /\ stopPc = "stopped"
  /\ repos[r].exists /\ IsActive(repos[r].status)

\* C12: a repository left in Cloning or Indexing by a run that shutdown aborted is
\* eventually returned by a ClaimPending call and run again.
C12_AbortedRepoIsPickedUp ==
  \A r \in Repos : Abandoned(r) ~> (\E w \in Workers : job[w] = r)

\* The file loop of the run of worker 1 has gone through the walk list.
LoopDone == wpc[1] = "files" /\ idx[1] > Len(ListFiles(checkout[1]))

\* C13: when the loop is through, every walked path whose digest was obtained has been
\* classified added (no record), changed (record of another digest) or unchanged (record
\* of the same digest), every recorded path absent from the walk has been classified
\* deleted, and no other path has been classified.
C13_DiffPartitionsPaths ==
  LoopDone =>
    \A p \in Paths :
      LET walked == checkout[1][p] # 0
          recorded == existing[1][p] # 0
      IN /\ (walked /\ class[p] # "no digest") =>
              class[p] = (IF ~recorded THEN "added"
                          ELSE IF existing[1][p] = checkout[1][p] THEN "unchanged"
                          ELSE "changed")
         /\ (recorded /\ ~walked) => class[p] = "deleted"
         /\ (~recorded /\ ~walked) => class[p] = "none"

\* C14: when a run reaches Completed, every file that had a record before the run and is
\* absent from the checkout has no record and no vector entry any more.
C14_DeletedFilesLeaveNothing ==
  [][(LoopDone /\ ret'[1] = RetNil) =>
       \A p \in Paths :
         (existing[1][p] # 0 /\ checkout[1][p] = 0) =>
           (files'[1][p] = NoFile /\ vectors'[1][p] = 0)]_vars

Transient == {"40001", "40P01", "08000", "08003", "08006", SafeToRetry}

C17_CommitOnlyOnSuccess ==
  dkind \in {"Tx", "Tx1"} =>
    IF dpc = "done" /\ dret.err = "nil"
    THEN dvisible = {dattempt}
    ELSE dvisible = {}

\* Tx returned nil on its third attempt, after an attempt whose fn ran and was rolled back.
C17_Witness ==
  /\ dpc = "done" /\ dkind = "Tx"
  /\ dret.err = "nil"
  /\ dattempt = maxRetries - 1 /\ dcalls >= 2
  /\ dvisible = {dattempt}

\* C18: when the removal of repository 1 succeeds (its row is deleted), no file record
\* and no vector entry of the repository is left.
C18_DeleteCascades ==
  [][(repos[1].exists /\ ~repos'[1].exists) =>
       \A p \in Paths : files'[1][p] = NoFile /\ vectors'[1][p] = 0]_vars

\* Repository r is pending.
IsPending(r) == repos[r].exists /\ repos[r].status = StatusPending

\* C19: a ClaimPending call that returns a repository returns a pending one of the
\* smallest created; when no repository is pending, a polling worker is handed nothing,
\* changes no repository and stays in its polling loop.
C19_ClaimsOldestOrNothing ==
  [][\A w \in Workers :
       /\ (wpc[w] = "idle" /\ wpc'[w] = "start") =>
            /\ IsPending(job'[w])
            /\ \A q \in Repos : IsPending(q) => repos[job'[w]].created <= repos[q].created
       /\ (wpc[w] = "idle" /\ ~(\E q \in Repos : IsPending(q))) =>
            /\ job'[w] = 0 /\ wpc'[w] \in {"idle", "exited"}
            /\ wpc'[w] # wpc[w] => repos' = repos]_vars

\* Repository 1 was indexed and set pending again after repository 2 was created: a
\* worker has claimed repository 1, the older one, and repository 2 is still pending.
C19_Witness ==
  \E w \in Workers :
    /\ wpc[w] = "start" /\ job[w] = 1
    /\ repos[1].commit = 1
    /\ IsPending(2)

SetPendingAgain ==
  \E r \in Repos : repos[r].exists /\ ~IsPending(r) /\ repos'[r].status = StatusPending

C21_CacheIsModelScoped ==
  [][clast'.op = "lookup" =>
       /\ (clast.op = "store" /\ clast.content_hash = clast'.content_hash
                               /\ clast.model = clast'.model)
            => (clast'.hit /\ clast'.out = clast.embedding)
       /\ (cache[clast'.content_hash].present
             /\ cache[clast'.content_hash].model # clast'.model)
            => ~clast'.hit]_vars

\* C22: the file loop calls the embedding service for no file whose content, and so
\* whose chunks, the service has embedded before with the same model.
C22_NoCallForEmbeddedContent ==
  [][calls' = calls + 1 =>
       checkout[1][ListFiles(checkout[1])[idx[1]]] \notin embedded]_vars

\* C23: no request holds more than MaxTextsPerBatch texts; a call that returns no error
\* returns one embedding per text, the i-th being that of the i-th text, over however
\* many batches; a batch that fails makes the call return an error and no embeddings.
C23_BatchesKeepOrder ==
  /\ Len(sent) <= MaxTextsPerBatch
  /\ (epc = "done" /\ eret.err = "nil") =>
       /\ Len(eret.embeddings) = Len(texts)
       /\ \A i \in 1..Len(texts) : eret.embeddings[i] = ToFloat32(Embedding64(texts[i]))
  /\ (eresp \in {"error", "short", "empty"}) =>
       /\ epc = "done"
       /\ eret.err # "nil"
       /\ eret.embeddings = <<>>

C23_Witness ==
  /\ epc = "done"
  /\ eret.err = "nil"
  /\ Len(texts) > 2 * MaxTextsPerBatch

\* The estimated tokens of the texts seq[lo..hi] together.
RECURSIVE TotalTokens(_, _, _)
TotalTokens(seq, lo, hi) ==
  IF lo > hi THEN 0
  ELSE IF lo = hi THEN EstimateTokens(seq[lo])
  ELSE LET mid == (lo + hi) \div 2
       IN TotalTokens(seq, lo, mid) + TotalTokens(seq, mid + 1, hi)

\* C24: no text of a request the pipeline sends to the embedding service is estimated
\* at more than MaxTokensPerRequest tokens, and neither are the texts of a request
\* together.
C24_RequestsWithinLimits ==
  /\ \A i \in 1..Len(sent) : EstimateTokens(sent[i]) <= MaxTokensPerRequest
  /\ TotalTokens(sent, 1, Len(sent)) <= MaxTokensPerRequest

\* The entries ListFiles is to return: the files that pass the filters and can be
\* examined, in the root or in a directory that is walked and can be read.
Indexable(es) ==
  {i \in 1..Len(es) :
     /\ es[i].kind = "file" /\ es[i].keep /\ es[i].fault = "none"
     /\ es[i].under # 0 => (es[es[i].under].keep /\ es[es[i].under].fault = "none")}

\* C25: whatever entries of the checkout cannot be examined or read, ListFiles returns
\* every other indexable path and the listing does not make the run Failed.
C25_UnreadableEntryIsSkipped ==
  wres # "none" =>
    /\ {wfiles[k] : k \in 1..Len(wfiles)} = Indexable(entries)
    /\ repos[1].status # StatusFailed

\* The listing of a directory all of whose entries can be examined and read returns the
\* indexable paths in walk order.
ReadableDirIsListed ==
  (wres # "none" /\ \A i \in 1..Len(entries) : entries[i].fault = "none") =>
    /\ wres = "nil"
    /\ wfiles = SortedSeq(Indexable(entries))
    /\ repos[1].status # StatusFailed

\* C26: with the context not cancelled, a worker's IndexRepo call returns only with the
\* repository it claimed in status Completed or Failed.
C26_ReturnLeavesTerminalStatus ==
  [][\A w \in Workers :
       (wpc[w] # "returned" /\ wpc'[w] = "returned" /\ ~cancelled') =>
         repos'[job[w]].status \in {StatusCompleted, StatusFailed}]_vars

\* C27: when a run has returned, every file whose record holds the digest of the file in
\* the checkout (a file the next run skips as unchanged) has as many vector entries as
\* its record's chunk_count.
C27_UnchangedFilesHaveTheirVectors ==
  wpc[1] = "returned" =>
    \A p \in Paths :
      (files[1][p].shasum # 0 /\ files[1][p].shasum = checkout[1][p]) =>
        vectors[1][p] = files[1][p].chunk_count

\* C28: after the iteration of a changed file its vector entries are those it had (nothing
\* removed), those of its new chunk set (removed and inserted), or both (inserted only):
\* the old ones are never removed without the new ones being inserted.
C28_OldVectorsOutliveFailure ==
  [][(wpc[1] = "files" /\ idx'[1] = idx[1] + 1) =>
       LET p == ListFiles(checkout[1])[idx[1]]
           n == ChunksOf(checkout[1][p])
       IN class'[p] = "changed" =>
            vectors'[1][p] \in {vectors[1][p], n, vectors[1][p] + n}]_vars

\* C29: a repository that is not Failed has no error message, and a Failed one has one.
C29_ErrorIffFailed ==
  \A r \in Repos :
    repos[r].exists => (repos[r].status = StatusFailed <=> repos[r].error # NoError)

\* IndexRepo goes on to build the vector entries of the file: the call has returned no
\* error for its chunks (a file without chunks is skipped before the call).
BuildsEntries == epc = "done" /\ eret.err = "nil" /\ Len(texts) > 0

\* C30: when IndexRepo builds the vector entries, embeddings[i] exists for every chunk
\* index i, whatever the service answered.
C30_EmbeddingPerChunk ==
  BuildsEntries => DOMAIN eret.embeddings = 1..Len(texts)

C30_Witness == BuildsEntries /\ Len(texts) < MaxTextsPerBatch

====
